---- MODULE Spec2Model ----
(***************************************************************************)
(* Chat controller, chat service and socket rooms of the FakeSO server,    *)
(* and the hooks of the FakeSO client pages.                               *)
(*                                                                         *)
(* The persistent store holds users, messages and chats.  Every HTTP       *)
(* request is an asynchronous handler: between two awaits other handlers   *)
(* and socket events run, so every handler is one action per await-        *)
(* delimited step.  emitted is the record of what the socket server sent   *)
(* and to whom.  Each client hook is a record of its state variables; an   *)
(* async function of a hook is one action per await-delimited step.        *)
(***************************************************************************)
EXTENDS Integers, Sequences, FiniteSets, TLC

\* ---------------------------------------------------------------- bounds
MaxReq == 2
MaxEvents == 5
MaxChats == 2
MaxLen == 2
MaxMoves == 2
MaxUsers == 2

Reqs == 1..MaxReq

\* ---------------------------------------------------------- input domains
Conns == {"c1", "c2"}
ChatIds == {1, 2}
NoChatId == 0
\* the chat the clients of this model open, write to and add participants to
RequestChatIds == {1}

\* UserModel: the usernames that have a user document, and each document's _id
Usernames == {"u1", "u2"}
UserIdOf == [u \in Usernames |-> IF u = "u1" THEN "id1" ELSE "id2"]


\* what the requests of the model carry (chatId, msg, msgFrom / participant)
AddMessageInputs ==
  ([chatId : RequestChatIds, msg : {"hi"}, msgFrom : {"u2", "u3"}])
    \cup { [chatId |-> 1, msg |-> "", msgFrom |-> "u1"],
           [chatId |-> 1, msg |-> "hi", msgFrom |-> ""] }
AddParticipantInputs ==
  ([chatId : RequestChatIds, participant : {"u1", "u3"}])
    \cup { [chatId |-> 1, participant |-> ""] }

PayloadA == [msg |-> "a", msgFrom |-> "u1"]
PayloadB == [msg |-> "b", msgFrom |-> "u3"]

\* req.body of POST /chat/createChat
CreateChatBodies ==
  { [isArray |-> TRUE, participants |-> <<"id1">>, hasMessages |-> TRUE, messages |-> <<>>],
    [isArray |-> TRUE, participants |-> <<"u2", "u3">>, hasMessages |-> TRUE,
     messages |-> <<PayloadA, PayloadB>>],
    [isArray |-> TRUE, participants |-> <<>>, hasMessages |-> TRUE, messages |-> <<>>],
    [isArray |-> FALSE, participants |-> <<>>, hasMessages |-> TRUE, messages |-> <<>>],
    [isArray |-> TRUE, participants |-> <<"u1">>, hasMessages |-> FALSE, messages |-> <<>>] }

\* req.params.username of GET /chat/getChatsByUser/:username
UsernameParams == {"u1", "u2", "id1"}

NoBody == [isArray |-> FALSE, participants |-> <<>>, hasMessages |-> FALSE, messages |-> <<>>]

\* ------------------------------------------------------------------ state
VARIABLES
  messages,    \* MessageModel: messages[i] is the document with _id i
  chats,       \* ChatModel: chats[i] is the document with _id i
  connected,   \* the connections the socket server holds
  rooms,       \* socket rooms: rooms[chatID] is the set of connections in the room
  req,         \* the HTTP requests: inputs, position, locals and response
  emitted,     \* emitted[r]: the chatUpdate request r emitted and the connections it reached
  handled,     \* history: the socket events handled so far (kept by SpecRooms only)
  auth,        \* useAuth: its state, the call it awaits, the login context, the location
  gamePage,    \* useGamePage: its state, the call it awaits, the location
  gameServer,  \* the game session of the page, its players and the connections in its room
  gameNet,     \* the HTTP call and the socket events in flight between game page and server
  nimPage,     \* useNimGamePage: its state, its game and user, the 'makeMove' events it emitted
  usersPage,   \* useUsersListPage: its state and the getUsers call it awaits
  profile      \* useProfileSettings: its state and the calls it awaits

\* the state of the client hooks
clientVars == <<auth, gamePage, gameServer, gameNet, nimPage, usersPage, profile>>

vars == <<messages, chats, connected, rooms, req, emitted, handled, clientVars>>

\* ---------------------------------------------------------------- values
NoChat == [_id |-> NoChatId, participants |-> <<>>, messages |-> <<>>]

\* a ChatResponse / MessageResponse / populated chat: the document, or an
\* object with an 'error' field
OkResult(chat) == [error |-> FALSE, message |-> "", chat |-> chat]
ErrorResult(message) == [error |-> TRUE, message |-> message, chat |-> NoChat]
NoResult == ErrorResult("")

IdleReq ==
  [kind |-> "none", pc |-> "idle", chatId |-> NoChatId, body |-> NoBody,
   msg |-> "", msgFrom |-> "", participant |-> "",
   newMessage |-> 0, chat |-> NoChatId,
   username |-> "", chats |-> <<>>, populatedChats |-> <<>>,
   status |-> 0, text |-> <<"", "">>, json |-> NoResult]

Range(seq) == {seq[i] : i \in DOMAIN seq}

ChatDoc(cs, id) == [_id |-> id, participants |-> cs[id].participants,
                    messages |-> cs[id].messages]

\* ------------------------------------------------------------ chat service
\* MessageModel.create: the new document gets the next _id
MessageCreate(ms, data) == Append(ms, data)

\* saveChat: every message of the payload is created (all creates are started
\* by Promise.all; failing is the set of payload indexes whose create
\* rejects), then the chat is created with the ids in payload order.
RECURSIVE SavedMessages(_, _, _, _)
SavedMessages(ms, payload, failing, i) ==
  IF i > Len(payload) THEN ms
  ELSE SavedMessages(IF i \in failing THEN ms ELSE MessageCreate(ms, payload[i]),
                     payload, failing, i + 1)

MessageIds(ms, payload) == [i \in 1..Len(payload) |-> Len(ms) + i]

\* a saveChat that creates the chat from the messages that could be created
saveChat_KeepsCreated(ms, cs, chatPayload, failing, chatOk) ==
  LET saved == SavedMessages(ms, chatPayload.messages, failing, 1)
  IN IF chatOk
     THEN [error |-> FALSE, message |-> "", messages |-> saved,
           chats |-> Append(cs, [participants |-> chatPayload.participants,
                                 messages |-> [i \in 1..(Len(saved) - Len(ms)) |->
                                                 Len(ms) + i]]),
           id |-> Len(cs) + 1]
     ELSE [error |-> TRUE, message |-> "Error occurred while saving chat",
           messages |-> saved, chats |-> cs, id |-> NoChatId]

saveChat(ms, cs, chatPayload, failing, chatOk) ==
  IF failing = {} /\ chatOk
  THEN [error |-> FALSE, message |-> "",
        messages |-> SavedMessages(ms, chatPayload.messages, failing, 1),
        chats |-> Append(cs, [participants |-> chatPayload.participants,
                              messages |-> MessageIds(ms, chatPayload.messages)]),
        id |-> Len(cs) + 1]
  ELSE [error |-> TRUE, message |-> "Error occurred while saving chat",
        messages |-> SavedMessages(ms, chatPayload.messages, failing, 1),
        chats |-> cs, id |-> NoChatId]

\* createMessage without the lookup of the sender
createMessage_NoUserLookup(ms, messageData, dbOk) ==
  IF dbOk
  THEN [error |-> FALSE, message |-> "", messages |-> MessageCreate(ms, messageData),
        id |-> Len(ms) + 1]
  ELSE [error |-> TRUE, message |-> "Error occurred while creating message",
        messages |-> ms, id |-> 0]

\* createMessage: the sender must have a user document
createMessage(ms, messageData, dbOk) ==
  IF messageData.msgFrom \in Usernames /\ dbOk
  THEN [error |-> FALSE, message |-> "", messages |-> MessageCreate(ms, messageData),
        id |-> Len(ms) + 1]
  ELSE [error |-> TRUE, message |-> "Error occurred while creating message",
        messages |-> ms, id |-> 0]

\* addMessageToChat without the check that a chat was found
addMessageToChat_NoNullCheck(cs, chatId, messageId, dbOk) ==
  IF dbOk
  THEN [error |-> FALSE, message |-> "",
        chats |-> IF chatId \in 1..Len(cs)
                  THEN [cs EXCEPT ![chatId].messages = Append(@, messageId)]
                  ELSE cs,
        id |-> chatId]
  ELSE [error |-> TRUE, message |-> "Error occurred while adding the message to chat",
        chats |-> cs, id |-> NoChatId]

\* addMessageToChat: findByIdAndUpdate(chatId, $push messages)
addMessageToChat(cs, chatId, messageId, dbOk) ==
  IF dbOk /\ chatId \in 1..Len(cs)
  THEN [error |-> FALSE, message |-> "",
        chats |-> [cs EXCEPT ![chatId].messages = Append(@, messageId)],
        id |-> chatId]
  ELSE [error |-> TRUE, message |-> "Error occurred while adding the message to chat",
        chats |-> cs, id |-> NoChatId]

\* the ids 1..n in order (the order find returns the documents in)
Ids(n) == [i \in 1..n |-> i]

\* getChatsByParticipants with $in in the place of $all
getChatsByParticipants_In(cs, p, dbOk) ==
  IF dbOk
  THEN SelectSeq(Ids(Len(cs)),
                 LAMBDA id : \E k \in DOMAIN p : p[k] \in Range(cs[id].participants))
  ELSE <<>>

\* getChatsByParticipants: ChatModel.find({ participants: { $all: p } }), the
\* chats whose participants array holds every element of p; [] when the
\* store fails
getChatsByParticipants(cs, p, dbOk) ==
  IF dbOk
  THEN SelectSeq(Ids(Len(cs)),
                 LAMBDA id : \A k \in DOMAIN p : p[k] \in Range(cs[id].participants))
  ELSE <<>>

\* The id handed to findByIdAndUpdate is the object
\* { _id: chatId, participants: { $in: [user._id] } }.  findByIdAndUpdate looks
\* the document up by { _id: id }, and the ObjectId cast of an object that has
\* an _id field is that field: the participants condition is not part of the
\* query, so the chat is found by chatId alone.
IdOfFilter(filter) == filter._id

\* addParticipantToChat with $set in the place of $push
addParticipantToChat_Set(cs, chatId, userId, dbOk) ==
  IF userId \in Usernames /\ dbOk /\ chatId \in 1..Len(cs)
  THEN [error |-> FALSE, message |-> "",
        chats |-> [cs EXCEPT ![chatId].participants = <<UserIdOf[userId]>>],
        id |-> chatId]
  ELSE [error |-> TRUE, message |-> "Error occurred while adding participant to chat",
        chats |-> cs, id |-> NoChatId]

\* addParticipantToChat: the user is looked up by username and its _id pushed
addParticipantToChat(cs, chatId, userId, dbOk) ==
  IF userId \in Usernames /\ dbOk
  THEN LET filter == [_id |-> chatId, participantsIn |-> {UserIdOf[userId]}]
           id == IdOfFilter(filter)
       IN IF id \in 1..Len(cs)
          THEN [error |-> FALSE, message |-> "",
                chats |-> [cs EXCEPT ![id].participants = Append(@, UserIdOf[userId])],
                id |-> id]
          ELSE [error |-> TRUE, message |-> "Error occurred while adding participant to chat",
                chats |-> cs, id |-> NoChatId]
  ELSE [error |-> TRUE, message |-> "Error occurred while adding participant to chat",
        chats |-> cs, id |-> NoChatId]

\* populateDocument(id, 'chat'): the chat with its message ids replaced by the
\* message documents, or an object with an 'error' field
PopulatedMessage(ms, i) == [_id |-> i, msg |-> ms[i].msg, msgFrom |-> ms[i].msgFrom]

populateDocument(ms, cs, id, ok) ==
  IF ok /\ id \in 1..Len(cs)
  THEN OkResult([_id |-> id, participants |-> cs[id].participants,
                 messages |-> [k \in 1..Len(cs[id].messages) |->
                                 PopulatedMessage(ms, cs[id].messages[k])]])
  ELSE ErrorResult("Error when fetching and populating a document")

\* ------------------------------------------------------------- validation
\* isCreateChatRequestValid without the test of participants.length
isCreateChatRequestValid_NoLength(body) == body.isArray /\ body.hasMessages

isCreateChatRequestValid(body) ==
  body.isArray /\ Len(body.participants) > 0 /\ body.hasMessages

\* isAddMessageRequestValid without the test of msgFrom
isAddMessageRequestValid_NoMsgFrom(chatId, msg, msgFrom) == chatId # NoChatId /\ msg # ""

isAddMessageRequestValid(chatId, msg, msgFrom) ==
  chatId # NoChatId /\ msg # "" /\ msgFrom # ""

isAddParticipantRequestValid(chatId, participant) ==
  chatId # NoChatId /\ participant # ""

\* ------------------------------------------------------------ socket server
NoEmit == [type |-> "none", room |-> NoChatId, payload |-> NoResult, to |-> {}]

\* socket.to(chat).emit in the place of socket.emit
EmitToAll_ChatRoom(payload, type) ==
  [type |-> type, room |-> payload.chat._id, payload |-> payload,
   to |-> IF payload.chat._id \in ChatIds THEN rooms[payload.chat._id] ELSE {}]

\* socket.emit('chatUpdate', ...): to every connection
EmitToAll(payload, type) ==
  [type |-> type, room |-> NoChatId, payload |-> payload, to |-> connected]

\* socket.emit in the place of socket.to(room).emit
EmitToRoom_Everyone(room, payload, type) ==
  [type |-> type, room |-> room, payload |-> payload, to |-> connected]

\* socket.to(room).emit('chatUpdate', ...): to the connections in the room
EmitToRoom(room, payload, type) ==
  [type |-> type, room |-> room, payload |-> payload, to |-> rooms[room]]

\* conn.join(chatID)
joinChat(rs, conn, chatID) == [rs EXCEPT ![chatID] = @ \cup {conn}]

\* a leaveChat listener that leaves nothing
leaveChat_Nothing(rs, conn, chatID) == rs

\* if (chatID) conn.leave(chatID): chatID may be undefined (NoChatId)
leaveChat(rs, conn, chatID) ==
  IF chatID # NoChatId THEN [rs EXCEPT ![chatID] = @ \ {conn}] ELSE rs

\* socket.on('connection'): the listeners of conn are registered
Connect(conn) ==
  /\ conn \notin connected
  /\ connected' = connected \cup {conn}
  /\ UNCHANGED <<messages, chats, rooms, req, emitted, clientVars>>

JoinChat(conn, chatID) ==
  /\ conn \in connected
  /\ rooms' = joinChat(rooms, conn, chatID)
  /\ UNCHANGED <<messages, chats, connected, req, emitted, clientVars>>

LeaveChat(conn, chatID) ==
  /\ conn \in connected
  /\ rooms' = leaveChat(rooms, conn, chatID)
  /\ UNCHANGED <<messages, chats, connected, req, emitted, clientVars>>

\* ------------------------------------------------------------------ routes
Respond(q, status, text, json) ==
  [q EXCEPT !.pc = "done", !.status = status, !.text = text, !.json = json]

\* requests are numbered in the order they arrive
CanStart(r) == req[r].pc = "idle" /\ (IF r = 1 THEN TRUE ELSE req[r - 1].pc # "idle")

\* POST /chat/createChat, until saveChat has returned: an invalid request ends
\* with 400 before saveChat is called, an error marker ends it with 500
CreateChatRoute(r, body) ==
  /\ CanStart(r)
  /\ LET q == [req[r] EXCEPT !.kind = "createChat", !.body = body]
     IN IF ~isCreateChatRequestValid(body)
        THEN /\ req' = [req EXCEPT ![r] =
                  Respond(q, 400, <<"Invalid request for creating chat", "">>, NoResult)]
             /\ UNCHANGED <<messages, chats>>
        ELSE \E failing \in SUBSET (1..Len(body.messages)), chatOk \in BOOLEAN :
               /\ failing # {} => chatOk
               /\ LET createdChat == saveChat(messages, chats, body, failing, chatOk)
                  IN /\ messages' = createdChat.messages
                     /\ chats' = createdChat.chats
                     /\ req' = [req EXCEPT ![r] =
                          IF createdChat.error
                          THEN Respond(q, 500, <<"Error occurred while creating a chat",
                                                 createdChat.message>>, NoResult)
                          ELSE [q EXCEPT !.pc = "populate", !.chat = createdChat.id]]
  /\ UNCHANGED <<connected, rooms, emitted, handled, clientVars>>

\* createChat, populateDocument has returned: its result is emitted to everyone
\* and sent, whatever it is
PopulateCreated(r) ==
  /\ req[r].kind = "createChat" /\ req[r].pc = "populate"
  /\ \E ok \in BOOLEAN :
       LET populatedChat == populateDocument(messages, chats, req[r].chat, ok)
       IN /\ emitted' = [emitted EXCEPT ![r] = EmitToAll(populatedChat, "created")]
          /\ req' = [req EXCEPT ![r] = Respond(req[r], 200, <<"", "">>, populatedChat)]
  /\ UNCHANGED <<messages, chats, connected, rooms, handled, clientVars>>

\* POST /chat/:chatId/addMessage, until createMessage has returned
AddMessageRoute(r, in) ==
  /\ CanStart(r)
  /\ LET q == [req[r] EXCEPT !.kind = "addMessage", !.chatId = in.chatId,
                             !.msg = in.msg, !.msgFrom = in.msgFrom]
     IN IF ~isAddMessageRequestValid(in.chatId, in.msg, in.msgFrom)
        THEN /\ req' = [req EXCEPT ![r] =
                  Respond(q, 400, <<"Invalid request body", "">>, NoResult)]
             /\ UNCHANGED messages
        ELSE \E dbOk \in BOOLEAN :
               LET newMessage == createMessage(messages,
                                               [msg |-> in.msg, msgFrom |-> in.msgFrom], dbOk)
               IN /\ messages' = newMessage.messages
                  /\ req' = [req EXCEPT ![r] =
                       IF newMessage.error
                       THEN Respond(q, 500,
                                    <<"Error occurred while adding a message to the chat",
                                      newMessage.message>>, NoResult)
                       ELSE [q EXCEPT !.pc = "addMessageToChat",
                                      !.newMessage = newMessage.id]]
  /\ UNCHANGED <<chats, connected, rooms, emitted, handled, clientVars>>

\* addMessage, addMessageToChat has returned
AddMessageToChat(r) ==
  /\ req[r].kind = "addMessage" /\ req[r].pc = "addMessageToChat"
  /\ \E dbOk \in BOOLEAN :
       LET updatedChat == addMessageToChat(chats, req[r].chatId, req[r].newMessage, dbOk)
       IN /\ chats' = updatedChat.chats
          /\ req' = [req EXCEPT ![r] =
               IF updatedChat.error
               THEN Respond(req[r], 500,
                            <<"Error occurred while adding a message to the chat",
                              updatedChat.message>>, NoResult)
               ELSE [req[r] EXCEPT !.pc = "populate", !.chat = updatedChat.id]]
  /\ UNCHANGED <<messages, connected, rooms, emitted, handled, clientVars>>

\* addMessage, populateDocument has returned: its result is emitted to the room
\* of the chat and sent, whatever it is
PopulateUpdated(r) ==
  /\ req[r].kind = "addMessage" /\ req[r].pc = "populate"
  /\ \E ok \in BOOLEAN :
       LET populatedChat == populateDocument(messages, chats, req[r].chat, ok)
       IN /\ emitted' = [emitted EXCEPT ![r] =
                           EmitToRoom(req[r].chatId, populatedChat, "newMessage")]
          /\ req' = [req EXCEPT ![r] = Respond(req[r], 200, <<"", "">>, populatedChat)]
  /\ UNCHANGED <<messages, chats, connected, rooms, handled, clientVars>>

\* POST /chat/:chatId/addParticipant: the chat addParticipantToChat returns is
\* emitted to everyone and sent
AddParticipantRoute(r, in) ==
  /\ CanStart(r)
  /\ LET q == [req[r] EXCEPT !.kind = "addParticipant", !.chatId = in.chatId,
                             !.participant = in.participant]
     IN IF ~isAddParticipantRequestValid(in.chatId, in.participant)
        THEN /\ req' = [req EXCEPT ![r] =
                  Respond(q, 400, <<"Invalid request body", "">>, NoResult)]
             /\ UNCHANGED <<chats, emitted>>
        ELSE \E dbOk \in BOOLEAN :
               LET chat == addParticipantToChat(chats, in.chatId, in.participant, dbOk)
               IN /\ chats' = chat.chats
                  /\ IF chat.error
                     THEN /\ req' = [req EXCEPT ![r] =
                               Respond(q, 500,
                                       <<"Error occurred while adding participant to chat",
                                         chat.message>>, NoResult)]
                          /\ UNCHANGED emitted
                     ELSE LET doc == OkResult(ChatDoc(chat.chats, chat.id))
                          IN /\ emitted' = [emitted EXCEPT ![r] =
                                              EmitToAll(doc, "newParticipant")]
                             /\ req' = [req EXCEPT ![r] =
                                  Respond([q EXCEPT !.chat = chat.id], 200, <<"", "">>, doc)]
  /\ UNCHANGED <<messages, connected, rooms, handled, clientVars>>

\* GET /chat/getChatsByUser/:username, until getChatsByParticipants has returned
GetChatsByUserRoute(r, username) ==
  /\ CanStart(r)
  /\ \E dbOk \in BOOLEAN :
       req' = [req EXCEPT ![r] =
                 [@ EXCEPT !.kind = "getChatsByUser", !.username = username,
                           !.chats = getChatsByParticipants(chats, <<username>>, dbOk),
                           !.pc = "populate"]]
  /\ UNCHANGED <<messages, chats, connected, rooms, emitted, handled, clientVars>>

\* getChatsByUser, every populateDocument has returned: one error marker among
\* the results ends the request with 500
GetChatsByUserPopulated(r) ==
  /\ req[r].kind = "getChatsByUser" /\ req[r].pc = "populate"
  /\ \E failing \in SUBSET (DOMAIN req[r].chats) :
       LET populatedChats ==
             [k \in DOMAIN req[r].chats |->
                populateDocument(messages, chats, req[r].chats[k], k \notin failing)]
       IN req' = [req EXCEPT ![r] =
            IF \E k \in DOMAIN populatedChats : populatedChats[k].error
            THEN Respond(@, 500, <<"Error occurred while retrieving chats",
                                   "Failed to populate all fetched chats">>, NoResult)
            ELSE [Respond(@, 200, <<"", "">>, NoResult)
                    EXCEPT !.populatedChats = populatedChats]]
  /\ UNCHANGED <<messages, chats, connected, rooms, emitted, handled, clientVars>>

\* the state of the server
serverVars == <<messages, chats, connected, rooms, req, emitted, handled>>

\* ------------------------------------------------------------------ useAuth
\* what can be typed into an input: strings of up to MaxLen characters
Chars == {"a", " "}
Typed == UNION {[1..n -> Chars] : n \in 0..MaxLen}

\* String.prototype.trim
RECURSIVE trimStart(_)
trimStart(value) ==
  IF value # <<>> /\ Head(value) = " " THEN trimStart(Tail(value)) ELSE value

RECURSIVE trimEnd(_)
trimEnd(value) ==
  IF value # <<>> /\ value[Len(value)] = " "
  THEN trimEnd(SubSeq(value, 1, Len(value) - 1))
  ELSE value

trim(value) == trimEnd(trimStart(value))

NoCall == [api |-> "none", username |-> <<>>, password |-> <<>>]
NoUser == [username |-> <<>>]

\* useAuth(authType): the state variables after the first render, with the
\* call handleSubmit awaits, the user of the login context, the location of
\* the router, and the handler that ran last with the calls it made
\* what the awaited loginUser / createUser call settled with: nothing yet,
\* the user it resolved with, or the Error it rejected with
NoAnswer == [ok |-> FALSE, message |-> ""]
FailureMessages == {"Invalid username or password", "Request failed"}

useAuth(authType) ==
  [authType |-> authType,
   username |-> <<>>, password |-> <<>>, passwordConfirmation |-> <<>>,
   showPassword |-> FALSE, err |-> "",
   awaiting |-> NoCall, answer |-> NoAnswer, user |-> NoUser,
   location |-> "/", handler |-> "", effects |-> <<>>]

\* the frame of the useAuth actions
exceptAuth == <<serverVars, gamePage, gameServer, gameNet, nimPage, usersPage, profile>>

togglePasswordVisibility ==
  /\ auth.location = "/"
  /\ auth' = [auth EXCEPT !.showPassword = ~@,
                          !.handler = "togglePasswordVisibility",
                          !.effects = <<"setShowPassword">>]
  /\ UNCHANGED exceptAuth

handleInputChange(value, field) ==
  /\ auth.location = "/"
  /\ LET fieldValue == trim(value)
     IN auth' =
          IF field = "username"
          THEN [auth EXCEPT !.username = fieldValue, !.handler = "handleInputChange",
                            !.effects = <<"setUsername">>]
          ELSE IF field = "password"
          THEN [auth EXCEPT !.password = fieldValue, !.handler = "handleInputChange",
                            !.effects = <<"setPassword">>]
          ELSE [auth EXCEPT !.passwordConfirmation = fieldValue,
                            !.handler = "handleInputChange",
                            !.effects = <<"setPasswordConfirmation">>]
  /\ UNCHANGED exceptAuth

\* validateInputs without the test for an empty username or password
validateInputs_NoEmptyCheck(a) ==
  IF a.authType = "signup" /\ a.password # a.passwordConfirmation
  THEN [valid |-> TRUE, setErr |-> TRUE,
        err |-> "Password and Password confirmation do not match"]
  ELSE [valid |-> TRUE, setErr |-> FALSE, err |-> a.err]

\* validateInputs: what it returns, whether it calls setErr and with what.
\* The branch for passwords that differ sets the error and falls through to
\* 'return true'.
validateInputs(a) ==
  IF a.username = <<>> \/ a.password = <<>>
  THEN [valid |-> FALSE, setErr |-> TRUE,
        err |-> "Please enter a valid username and passsword"]
  ELSE IF a.authType = "signup" /\ a.password # a.passwordConfirmation
  THEN [valid |-> TRUE, setErr |-> TRUE,
        err |-> "Password and Password confirmation do not match"]
  ELSE [valid |-> TRUE, setErr |-> FALSE, err |-> a.err]

\* handleSubmit, to its await.  The form is submitted again only after the
\* answer to the last submission.
handleSubmit ==
  /\ auth.location = "/"
  /\ auth.awaiting = NoCall
  /\ LET v == validateInputs(auth)
         api == IF auth.authType = "login" THEN "loginUser" ELSE "createUser"
         set == IF v.setErr THEN <<"setErr">> ELSE <<>>
     IN auth' =
          IF ~v.valid
          THEN [auth EXCEPT !.err = v.err, !.handler = "handleSubmit", !.effects = set]
          ELSE [auth EXCEPT !.err = v.err,
                            !.awaiting = [api |-> api, username |-> auth.username,
                                          password |-> auth.password],
                            !.handler = "handleSubmit",
                            !.effects = set \o <<api>>]
  /\ UNCHANGED exceptAuth

\* a handleSubmit that navigates to /home whether or not the call succeeded
handleSubmitResumes_NavigateAnyway ==
  /\ auth.awaiting # NoCall
  /\ \E ok \in BOOLEAN, message \in FailureMessages :
       auth' =
         [auth EXCEPT !.awaiting = NoCall,
                      !.answer = [ok |-> ok,
                                  message |-> IF ok THEN "" ELSE message],
                      !.err = IF ok THEN @ ELSE message,
                      !.location = "/home",
                      !.handler = "handleSubmit (resumed)",
                      !.effects = IF ok THEN <<"setUser", "navigate">>
                                        ELSE <<"setErr", "navigate">>]
  /\ UNCHANGED exceptAuth

\* handleSubmit, from its await: loginUser / createUser resolved with the user
\* (setUser, then navigate('/home')) or rejected with an Error whose message
\* goes to setErr
handleSubmitResumes ==
  /\ auth.awaiting # NoCall
  /\ \E ok \in BOOLEAN, message \in FailureMessages :
       auth' =
         IF ok
         THEN [auth EXCEPT !.awaiting = NoCall,
                           !.answer = [ok |-> TRUE, message |-> ""],
                           !.user = [username |-> auth.awaiting.username],
                           !.location = "/home",
                           !.handler = "handleSubmit (resumed)",
                           !.effects = <<"setUser", "navigate">>]
         ELSE [auth EXCEPT !.awaiting = NoCall,
                           !.answer = [ok |-> FALSE, message |-> message],
                           !.err = message,
                           !.handler = "handleSubmit (resumed)",
                           !.effects = <<"setErr">>]
  /\ UNCHANGED exceptAuth

\* -------------------------------------------------------------- useGamePage
\* user.username of the user context, and the players that send moves
LocalUser == "u1"
Players == {"u1", "u2"}
\* the connection of the page
LocalConn == "c1"
\* useParams().gameID
GameID == "g1"

\* a GameInstance: its id, state.status and the number of moves in state.moves
GameInstance(gameID, status, moves) ==
  [gameID |-> gameID, status |-> status, moves |-> moves]
\* gameState === null
NoGame == GameInstance("", "null", 0)
NoError == "null"
NoResponse == [api |-> "none", ok |-> FALSE, game |-> NoGame]
NoEvent == [name |-> "none", player |-> "", error |-> "", gameState |-> NoGame]

\* useGamePage(): the state variables, after the effect has called
\* handleJoinGame(gameID), which awaits joinGame
useGamePage ==
  [gameState |-> NoGame, joinedGameID |-> "", error |-> NoError,
   awaiting |-> "joinGame", location |-> "/games/g1",
   handler |-> "handleJoinGame", effects |-> <<"joinGame">>, received |-> NoEvent]

exceptGame == <<serverVars, auth, nimPage, usersPage, profile>>

Mounted == gamePage.location = "/games/g1"

\* a handleJoinGame that emits 'joinGame' after a rejected call too
handleJoinGameResumes_EmitsAnyway ==
  /\ Mounted
  /\ gamePage.awaiting = "joinGame"
  /\ gameNet.response.api = "joinGame"
  /\ LET game == gameNet.response.game
     IN /\ gamePage' =
             IF gameNet.response.ok
             THEN [gamePage EXCEPT
                     !.gameState = game, !.joinedGameID = game.gameID,
                     !.awaiting = "none", !.handler = "handleJoinGame (resumed)",
                     !.effects = <<"setGameState", "setJoinedGameID", "emit joinGame">>]
             ELSE [gamePage EXCEPT
                     !.error = "Error: Request failed.message",
                     !.awaiting = "none", !.handler = "handleJoinGame (resumed)",
                     !.effects = <<"setError", "emit joinGame">>]
        /\ gameNet' = [gameNet EXCEPT
             !.response = NoResponse,
             !.toServer = Append(@, [name |-> "joinGame", gameID |-> GameID])]
  /\ UNCHANGED <<exceptGame, gameServer>>

\* handleJoinGame, from its await: joinGame resolved with the game or rejected
handleJoinGameResumes ==
  /\ Mounted
  /\ gamePage.awaiting = "joinGame"
  /\ gameNet.response.api = "joinGame"
  /\ LET game == gameNet.response.game
     IN IF gameNet.response.ok
        THEN /\ gamePage' = [gamePage EXCEPT
                  !.gameState = game, !.joinedGameID = game.gameID,
                  !.awaiting = "none", !.handler = "handleJoinGame (resumed)",
                  !.effects = <<"setGameState", "setJoinedGameID", "emit joinGame">>]
             /\ gameNet' = [gameNet EXCEPT
                  !.response = NoResponse,
                  !.toServer = Append(@, [name |-> "joinGame", gameID |-> game.gameID])]
        ELSE /\ gamePage' = [gamePage EXCEPT
                  !.error = "Error: Request failed.message",
                  !.awaiting = "none", !.handler = "handleJoinGame (resumed)",
                  !.effects = <<"setError">>]
             /\ gameNet' = [gameNet EXCEPT !.response = NoResponse]
  /\ UNCHANGED <<exceptGame, gameServer>>

\* handleGameUpdate: the update replaces a game state that is not null
handleGameUpdate(page, updatedState) ==
  [page EXCEPT !.gameState = IF @ # NoGame THEN updatedState.gameState ELSE @,
               !.handler = "handleGameUpdate", !.effects = <<"setGameState">>,
               !.received = updatedState]

\* handleGameError without the comparison with user.username
handleGameError_AnyPlayer(page, gameError) ==
  [page EXCEPT !.error = gameError.error,
               !.handler = "handleGameError", !.effects = <<"setError">>,
               !.received = gameError]

\* handleGameError: the error is displayed if this user caused it
handleGameError(page, gameError) ==
  IF gameError.player = LocalUser
  THEN [page EXCEPT !.error = gameError.error,
                    !.handler = "handleGameError", !.effects = <<"setError">>,
                    !.received = gameError]
  ELSE [page EXCEPT !.handler = "handleGameError", !.effects = <<>>,
                    !.received = gameError]

\* socket.on('gameUpdate', handleGameUpdate): the next event from the server
SocketGameUpdate ==
  /\ Mounted
  /\ gameNet.toClient # <<>>
  /\ gamePage' = handleGameUpdate(gamePage, Head(gameNet.toClient))
  /\ gameNet' = [gameNet EXCEPT !.toClient = Tail(@)]
  /\ UNCHANGED <<exceptGame, gameServer>>

\* socket.on('gameError', handleGameError)
SocketGameError(gameError) ==
  /\ Mounted
  /\ gamePage' = handleGameError(gamePage, gameError)
  /\ UNCHANGED <<exceptGame, gameServer, gameNet>>

\* handleLeaveGame with the leave request sent for a game that is over too
handleLeaveGame_AlsoWhenOver ==
  /\ Mounted
  /\ gamePage.awaiting = "none"
  /\ IF gamePage.joinedGameID # ""
     THEN /\ gamePage' = [gamePage EXCEPT !.awaiting = "leaveGame",
                                          !.handler = "handleLeaveGame",
                                          !.effects = <<"leaveGame">>]
          /\ gameNet' = [gameNet EXCEPT !.request = "leaveGame"]
     ELSE /\ gamePage' = [gamePage EXCEPT !.location = "/games",
                                          !.handler = "handleLeaveGame",
                                          !.effects = <<"emit leaveGame", "navigate">>]
          /\ gameNet' = [gameNet EXCEPT !.toServer =
                           Append(@, [name |-> "leaveGame", gameID |-> gamePage.joinedGameID])]
  /\ UNCHANGED <<exceptGame, gameServer>>

\* handleLeaveGame, to its await; without a joined game that is not over it
\* runs to its end.  The button is not pressed while a call is awaited.
handleLeaveGame ==
  /\ Mounted
  /\ gamePage.awaiting = "none"
  /\ IF gamePage.joinedGameID # "" /\ gamePage.gameState.status # "OVER"
     THEN /\ gamePage' = [gamePage EXCEPT !.awaiting = "leaveGame",
                                          !.handler = "handleLeaveGame",
                                          !.effects = <<"leaveGame">>]
          /\ gameNet' = [gameNet EXCEPT !.request = "leaveGame"]
     ELSE /\ gamePage' = [gamePage EXCEPT !.location = "/games",
                                          !.handler = "handleLeaveGame",
                                          !.effects = <<"emit leaveGame", "navigate">>]
          /\ gameNet' = [gameNet EXCEPT !.toServer =
                           Append(@, [name |-> "leaveGame", gameID |-> gamePage.joinedGameID])]
  /\ UNCHANGED <<exceptGame, gameServer>>

\* handleLeaveGame, from its await: leaveGame resolved, or rejected and the
\* function ends with the exception
handleLeaveGameResumes ==
  /\ Mounted
  /\ gamePage.awaiting = "leaveGame"
  /\ gameNet.response.api = "leaveGame"
  /\ IF gameNet.response.ok
     THEN /\ gamePage' = [gamePage EXCEPT
               !.gameState = NoGame, !.joinedGameID = "",
               !.awaiting = "none", !.location = "/games",
               !.handler = "handleLeaveGame (resumed)",
               !.effects = <<"setGameState", "setJoinedGameID", "emit leaveGame", "navigate">>]
          /\ gameNet' = [gameNet EXCEPT
               !.response = NoResponse,
               !.toServer = Append(@, [name |-> "leaveGame", gameID |-> gamePage.joinedGameID])]
     ELSE /\ gamePage' = [gamePage EXCEPT
               !.awaiting = "none", !.handler = "handleLeaveGame (resumed)",
               !.effects = <<>>]
          /\ gameNet' = [gameNet EXCEPT !.response = NoResponse]
  /\ UNCHANGED <<exceptGame, gameServer>>

\* --------------------------------------------------------------- game server
\* The server's side of a game session: the join and leave requests, the
\* room of the game and the broadcast of every accepted move to the room.
InitialSession ==
  [session |-> GameInstance(GameID, "WAITING", 0), players |-> {"u2"}, subscribers |-> {}]

\* the session when the game already runs between two other players and the
\* connection is still in the room of the game from an earlier visit of the
\* page that was left without handleLeaveGame
StartedSession ==
  [session |-> GameInstance(GameID, "IN_PROGRESS", 0), players |-> {"u2", "u3"},
   subscribers |-> {LocalConn}]

InitialNet ==
  [request |-> "joinGame", response |-> NoResponse, toServer |-> <<>>, toClient |-> <<>>]

\* the join request is served: the player is added and the game starts
ServerJoin ==
  /\ gameNet.request = "joinGame"
  /\ \E ok \in BOOLEAN :
       IF ok /\ gameServer.session.status = "WAITING"
       THEN LET game == [gameServer.session EXCEPT !.status = "IN_PROGRESS"]
            IN /\ gameServer' = [gameServer EXCEPT !.session = game,
                                                   !.players = @ \cup {LocalUser}]
               /\ gameNet' = [gameNet EXCEPT !.request = "none",
                     !.response = [api |-> "joinGame", ok |-> TRUE, game |-> game]]
       ELSE /\ gameNet' = [gameNet EXCEPT !.request = "none",
                  !.response = [api |-> "joinGame", ok |-> FALSE, game |-> NoGame]]
            /\ UNCHANGED gameServer
  /\ UNCHANGED <<exceptGame, gamePage>>

\* the leave request is served
ServerLeave ==
  /\ gameNet.request = "leaveGame"
  /\ \E ok \in BOOLEAN :
       /\ gameServer' = IF ok THEN [gameServer EXCEPT !.players = @ \ {LocalUser}]
                        ELSE gameServer
       /\ gameNet' = [gameNet EXCEPT !.request = "none",
             !.response = [api |-> "leaveGame", ok |-> ok, game |-> NoGame]]
  /\ UNCHANGED <<exceptGame, gamePage>>

\* a move is accepted: the new state is broadcast to the room of the game
ServerMove ==
  /\ gameServer.session.status = "IN_PROGRESS"
  /\ gameServer.session.moves < MaxMoves
  /\ \E status \in {"IN_PROGRESS", "OVER"} :
       LET game == [gameServer.session EXCEPT !.moves = @ + 1, !.status = status]
       IN /\ gameServer' = [gameServer EXCEPT !.session = game]
          /\ gameNet' = [gameNet EXCEPT !.toClient =
                IF LocalConn \in gameServer.subscribers
                THEN Append(@, [name |-> "gameUpdate", player |-> "", error |-> "",
                                gameState |-> game])
                ELSE @]
  /\ UNCHANGED <<exceptGame, gamePage>>

\* the next socket event of the page is handled: joinGame, leaveGame
ServerSocket ==
  /\ gameNet.toServer # <<>>
  /\ LET event == Head(gameNet.toServer)
     IN gameServer' = [gameServer EXCEPT !.subscribers =
          IF event.name = "joinGame" THEN @ \cup {LocalConn} ELSE @ \ {LocalConn}]
  /\ gameNet' = [gameNet EXCEPT !.toServer = Tail(@)]
  /\ UNCHANGED <<exceptGame, gamePage>>

\* ----------------------------------------------------------- useNimGamePage
\* what can be typed into the input of the move
NimChars == {"0", "1", "2", "3", "4", " ", "a", "-"}
NimTyped == UNION {[1..n -> NimChars] : n \in 0..MaxLen}

\* a JavaScript number: NaN, or a value
NaN == [nan |-> TRUE, v |-> 0]
Num(v) == [nan |-> FALSE, v |-> v]

Digits == <<"0", "1", "2", "3", "4", "5", "6", "7", "8", "9">>

\* Number(s) for a string of at most one character: a digit is its value,
\* the empty string and white space are 0, anything else is NaN
Number(str) ==
  IF str = <<>> \/ str = <<" ">> THEN Num(0)
  ELSE IF \E d \in DOMAIN Digits : Digits[d] = str[1]
  THEN Num((CHOOSE d \in DOMAIN Digits : Digits[d] = str[1]) - 1)
  ELSE NaN

\* value.slice(-1): the last character, or the empty string
sliceLast(value) == IF value = <<>> THEN <<>> ELSE <<value[Len(value)]>>

\* comparisons with NaN are false
Geq(x, k) == ~x.nan /\ x.v >= k
Leq(x, k) == ~x.nan /\ x.v <= k

\* move: null, or a number
NullMove == [null |-> TRUE, num |-> Num(0)]
Move(num) == [null |-> FALSE, num |-> num]
\* if (move): null, 0 and NaN are falsy
Truthy(move) == ~move.null /\ ~move.num.nan /\ move.num.v # 0

\* useNimGamePage(gameState) under the user context: move is null
useNimGamePage(gameID, username) ==
  [move |-> NullMove, gameID |-> gameID, username |-> username, emitted |-> <<>>]

exceptNim == <<serverVars, auth, gamePage, gameServer, gameNet, usersPage, profile>>

\* handleInputChange of the Nim page without the test of the range
NimInputChange_NoRange(page, value) ==
  LET numObjects == Number(sliceLast(value))
  IN IF value # <<>>
     THEN [page EXCEPT !.move = Move(numObjects)]
     ELSE page

\* handleInputChange of the Nim page: the last character typed, if it is a
\* number from 1 to 3, becomes the move
NimInputChange(page, value) ==
  LET numObjects == Number(sliceLast(value))
  IN IF value # <<>> /\ Geq(numObjects, 1) /\ Leq(numObjects, 3)
     THEN [page EXCEPT !.move = Move(IF value = <<>> THEN Num(1) ELSE numObjects)]
     ELSE page

NimHandleInputChange(value) ==
  /\ nimPage' = NimInputChange(nimPage, value)
  /\ UNCHANGED exceptNim

\* handleMakeMove: 'makeMove' is emitted if move is set
NimHandleMakeMove ==
  /\ Len(nimPage.emitted) < MaxMoves
  /\ nimPage' =
       IF Truthy(nimPage.move)
       THEN [nimPage EXCEPT !.emitted =
               Append(@, [gameID |-> nimPage.gameID,
                          move |-> [playerID |-> nimPage.username,
                                    gameID |-> nimPage.gameID,
                                    move |-> [numObjects |-> nimPage.move.num]]])]
       ELSE nimPage
  /\ UNCHANGED exceptNim

\* --------------------------------------------------------- useUsersListPage
ListUsernames == {"a", "b"}
\* a User: its username and the rest of the document
Users == [username : ListUsernames, biography : {"x", "y"}]
\* what getUsers resolves with
FetchedLists == UNION {[1..n -> Users] : n \in 0..MaxUsers}

NoUpdate == [type |-> "none", user |-> [username |-> "", biography |-> ""]]
UserUpdates == [type : {"created", "deleted", "updated"}, user : Users]

\* useUsersListPage(): the list is empty and fetchData awaits getUsers
useUsersListPage ==
  [userList |-> <<>>, awaiting |-> "getUsers", fetched |-> <<>>,
   handler |-> "fetchData", received |-> NoUpdate]

exceptUsers == <<serverVars, auth, gamePage, gameServer, gameNet, nimPage, profile>>

removeUserFromList(prevUserList, user) ==
  SelectSeq(prevUserList, LAMBDA currUser : user.username # currUser.username)

\* addUserToList that always puts the user at the front
addUserToList_AlwaysFront(prevUserList, user) == <<user>> \o prevUserList

addUserToList(prevUserList, user) ==
  LET userExists ==
        \E i \in DOMAIN prevUserList : prevUserList[i].username = user.username
  IN IF userExists
     THEN [i \in DOMAIN prevUserList |->
             IF prevUserList[i].username = user.username THEN user ELSE prevUserList[i]]
     ELSE <<user>> \o prevUserList

\* a fetchData that puts the fetched users in front of the list it finds
fetchDataResumes_KeepsList ==
  /\ usersPage.awaiting = "getUsers"
  /\ \/ \E res \in FetchedLists :
          usersPage' = [usersPage EXCEPT !.userList = res \o @, !.fetched = res,
                                         !.awaiting = "none", !.handler = "fetchData (resumed)"]
     \/ usersPage' = [usersPage EXCEPT !.awaiting = "none",
                                       !.handler = "fetchData (resumed)"]
  /\ UNCHANGED exceptUsers

\* fetchData, from its await: getUsers resolved with a list, or rejected
fetchDataResumes ==
  /\ usersPage.awaiting = "getUsers"
  /\ \/ \E res \in FetchedLists :
          usersPage' = [usersPage EXCEPT !.userList = res, !.fetched = res,
                                         !.awaiting = "none", !.handler = "fetchData (resumed)"]
     \/ usersPage' = [usersPage EXCEPT !.awaiting = "none",
                                       !.handler = "fetchData (resumed)"]
  /\ UNCHANGED exceptUsers

\* socket.on('userUpdate', handleModifiedUserUpdate); an update of another
\* type throws and changes nothing
handleModifiedUserUpdate(userUpdate) ==
  /\ usersPage' =
       [usersPage EXCEPT
          !.userList =
             IF userUpdate.type = "created" THEN addUserToList(@, userUpdate.user)
             ELSE IF userUpdate.type = "deleted"
             THEN removeUserFromList(@, userUpdate.user)
             ELSE @,
          !.handler = "handleModifiedUserUpdate",
          !.received = userUpdate]
  /\ UNCHANGED exceptUsers

\* ------------------------------------------------------- useProfileSettings
\* useParams().username: the profile that is viewed, "" when the route has none
ProfileUser == "u1"
\* what the page's password inputs hand to setNewPassword and
\* setConfirmNewPassword
PasswordsTyped == {<<>>, <<" ">>, <<"a">>, <<"a", " ">>, <<" ", "a">>}

NoMessage == "null"
NoAction == "null"
NoReset == [username |-> "", newPassword |-> <<>>]

\* useProfileSettings(): the state variables, after the effect has called
\* fetchUserData, which awaits getUserByUsername unless username is missing
useProfileSettings(username) ==
  [username |-> username,
   userData |-> "null", loading |-> username # "",
   newPassword |-> <<>>, confirmNewPassword |-> <<>>,
   successMessage |-> NoMessage, errorMessage |-> NoMessage,
   showConfirmation |-> FALSE, pendingAction |-> NoAction,
   awaitingUser |-> username # "", awaitingReset |-> NoReset,
   awaitingDelete |-> "",
   answer |-> "none", location |-> "/user",
   handler |-> "", effects |-> <<>>]

exceptProfile == <<serverVars, auth, gamePage, gameServer, gameNet, nimPage, usersPage>>

\* the ProfileSettings page is rendered
ProfileMounted == profile.location = "/user"

\* fetchUserData, from its await: getUserByUsername resolved or rejected
fetchUserDataResumes ==
  /\ ProfileMounted
  /\ profile.awaitingUser
  /\ \E ok \in BOOLEAN :
       profile' =
         IF ok
         THEN [profile EXCEPT !.userData = profile.username,
                              !.loading = FALSE, !.awaitingUser = FALSE,
                              !.answer = "resolved",
                              !.handler = "fetchUserData (resumed)",
                              !.effects = <<"setUserData", "setLoading">>]
         ELSE [profile EXCEPT !.errorMessage = "Error fetching user profile",
                              !.userData = "null",
                              !.loading = FALSE, !.awaitingUser = FALSE,
                              !.answer = "rejected",
                              !.handler = "fetchUserData (resumed)",
                              !.effects = <<"setErrorMessage", "setUserData", "setLoading">>]
  /\ UNCHANGED exceptProfile

setNewPassword(value) ==
  /\ ProfileMounted
  /\ profile' = [profile EXCEPT !.newPassword = value, !.answer = "none",
                                !.handler = "setNewPassword", !.effects = <<>>]
  /\ UNCHANGED exceptProfile

setConfirmNewPassword(value) ==
  /\ ProfileMounted
  /\ profile' = [profile EXCEPT !.confirmNewPassword = value, !.answer = "none",
                                !.handler = "setConfirmNewPassword", !.effects = <<>>]
  /\ UNCHANGED exceptProfile

\* validatePasswords without the comparison of the two fields
validatePasswords_NoComparison(p) ==
  IF trim(p.newPassword) = <<>> \/ trim(p.confirmNewPassword) = <<>>
  THEN [valid |-> FALSE, errorMessage |-> "Please enter Password and confirm it."]
  ELSE [valid |-> TRUE, errorMessage |-> p.errorMessage]

\* validatePasswords: whether it returns true, and the errorMessage it leaves
validatePasswords(p) ==
  IF trim(p.newPassword) = <<>> \/ trim(p.confirmNewPassword) = <<>>
  THEN [valid |-> FALSE, errorMessage |-> "Please enter Password and confirm it."]
  ELSE IF p.newPassword # p.confirmNewPassword
  THEN [valid |-> FALSE,
        errorMessage |-> "Password and Confirm Password fields do not match."]
  ELSE [valid |-> TRUE, errorMessage |-> p.errorMessage]

\* handleResetPassword, to its await of resetPassword or to its early return
handleResetPassword ==
  /\ ProfileMounted
  /\ profile.awaitingReset = NoReset
  /\ LET v == validatePasswords(profile)
     IN profile' =
          IF profile.username = ""
          THEN [profile EXCEPT !.answer = "none", !.handler = "handleResetPassword",
                               !.effects = <<>>]
          ELSE IF ~v.valid
          THEN [profile EXCEPT !.errorMessage = v.errorMessage, !.answer = "none",
                               !.handler = "handleResetPassword",
                               !.effects = <<"setErrorMessage">>]
          ELSE [profile EXCEPT !.awaitingReset =
                                  [username |-> profile.username,
                                   newPassword |-> profile.newPassword],
                               !.answer = "none",
                               !.handler = "handleResetPassword",
                               !.effects = <<"resetPassword">>]
  /\ UNCHANGED exceptProfile

\* handleResetPassword, from its await: resetPassword resolved or rejected
handleResetPasswordResumes ==
  /\ ProfileMounted
  /\ profile.awaitingReset # NoReset
  /\ \E ok \in BOOLEAN :
       profile' =
         IF ok
         THEN [profile EXCEPT !.awaitingReset = NoReset,
                              !.newPassword = <<>>, !.confirmNewPassword = <<>>,
                              !.errorMessage = NoMessage,
                              !.successMessage =
                                 "The password has been reset successfully!",
                              !.answer = "resolved",
                              !.handler = "handleResetPassword (resumed)",
                              !.effects = <<"setNewPassword", "setConfirmNewPassword",
                                            "setErrorMessage", "setSuccessMessage">>]
         ELSE [profile EXCEPT !.awaitingReset = NoReset,
                              !.errorMessage = "Password reset failed.",
                              !.successMessage = NoMessage,
                              !.answer = "rejected",
                              !.handler = "handleResetPassword (resumed)",
                              !.effects = <<"setErrorMessage", "setSuccessMessage">>]
  /\ UNCHANGED exceptProfile

\* a handleDeleteUser that deletes at once, without the confirmation
handleDeleteUser_DeletesAtOnce ==
  /\ ProfileMounted
  /\ profile.awaitingDelete = ""
  /\ profile' =
       IF profile.username = ""
       THEN [profile EXCEPT !.answer = "none", !.handler = "handleDeleteUser",
                            !.effects = <<>>]
       ELSE [profile EXCEPT !.awaitingDelete = profile.username,
                            !.answer = "none", !.handler = "handleDeleteUser",
                            !.effects = <<"deleteUser">>]
  /\ UNCHANGED exceptProfile

\* handleDeleteUser: the confirmation is shown and the deletion is stored as
\* the pending action
handleDeleteUser ==
  /\ ProfileMounted
  /\ profile' =
       IF profile.username = ""
       THEN [profile EXCEPT !.answer = "none", !.handler = "handleDeleteUser",
                            !.effects = <<>>]
       ELSE [profile EXCEPT !.showConfirmation = TRUE,
                            !.pendingAction = "deleteUser",
                            !.answer = "none", !.handler = "handleDeleteUser",
                            !.effects = <<"setShowConfirmation", "setPendingAction">>]
  /\ UNCHANGED exceptProfile

\* setShowConfirmation and setPendingAction(null), as the page may call them
setShowConfirmation(value) ==
  /\ ProfileMounted
  /\ profile' = [profile EXCEPT !.showConfirmation = value, !.answer = "none",
                                !.handler = "setShowConfirmation", !.effects = <<>>]
  /\ UNCHANGED exceptProfile

setPendingAction(action) ==
  /\ ProfileMounted
  /\ profile' = [profile EXCEPT !.pendingAction = action, !.answer = "none",
                                !.handler = "setPendingAction", !.effects = <<>>]
  /\ UNCHANGED exceptProfile

\* the page runs the stored pending action, to its await of deleteUser
pendingActionRuns ==
  /\ ProfileMounted
  /\ profile.pendingAction # NoAction
  /\ profile.awaitingDelete = ""
  /\ profile' = [profile EXCEPT !.awaitingDelete = profile.username,
                                !.answer = "none", !.handler = "pendingAction",
                                !.effects = <<"deleteUser">>]
  /\ UNCHANGED exceptProfile

\* the pending action, from its await: deleteUser resolved or rejected, and
\* the finally block
pendingActionResumes ==
  /\ ProfileMounted
  /\ profile.awaitingDelete # ""
  /\ \E ok \in BOOLEAN :
       profile' =
         IF ok
         THEN [profile EXCEPT !.awaitingDelete = "",
                              !.errorMessage = NoMessage,
                              !.successMessage = "User 'u1' deleted successfully!",
                              !.location = "/",
                              !.showConfirmation = FALSE,
                              !.answer = "resolved",
                              !.handler = "pendingAction (resumed)",
                              !.effects = <<"setErrorMessage", "setSuccessMessage",
                                            "navigate", "setShowConfirmation">>]
         ELSE [profile EXCEPT !.awaitingDelete = "",
                              !.errorMessage = "Failed to delete user.",
                              !.successMessage = NoMessage,
                              !.showConfirmation = FALSE,
                              !.answer = "rejected",
                              !.handler = "pendingAction (resumed)",
                              !.effects = <<"setErrorMessage", "setSuccessMessage",
                                            "setShowConfirmation">>]
  /\ UNCHANGED exceptProfile

\* ----------------------------------------------------------- specification
\* the server after chatController(socket), the store empty
InitServer ==
  /\ messages = <<>>
  /\ chats = <<>>
  /\ connected = {}
  /\ rooms = [ch \in ChatIds |-> {}]
  /\ req = [r \in Reqs |-> IdleReq]
  /\ emitted = [r \in Reqs |-> NoEmit]
  /\ handled = <<>>

Init ==
  /\ InitServer
  /\ auth = useAuth("login")
  /\ gamePage = useGamePage
  /\ gameServer = InitialSession
  /\ gameNet = InitialNet
  /\ nimPage = useNimGamePage(GameID, LocalUser)
  /\ usersPage = useUsersListPage
  /\ profile = useProfileSettings(ProfileUser)

Next ==
  \/ \E conn \in Conns : Connect(conn) /\ UNCHANGED handled
  \/ \E conn \in Conns, chatID \in RequestChatIds :
       JoinChat(conn, chatID) /\ UNCHANGED handled
  \/ \E conn \in Conns, chatID \in RequestChatIds \cup {NoChatId} :
       LeaveChat(conn, chatID) /\ UNCHANGED handled
  \/ \E r \in Reqs, body \in CreateChatBodies : CreateChatRoute(r, body)
  \/ \E r \in Reqs : PopulateCreated(r)
  \/ \E r \in Reqs, in \in AddMessageInputs : AddMessageRoute(r, in)
  \/ \E r \in Reqs : AddMessageToChat(r)
  \/ \E r \in Reqs : PopulateUpdated(r)
  \/ \E r \in Reqs, in \in AddParticipantInputs : AddParticipantRoute(r, in)

Spec == Init /\ [][Next]_vars

\* The socket events alone, over every room, with the events handled recorded.
Event(name, conn, chatID) == [name |-> name, conn |-> conn, chatID |-> chatID]

Handle(event) == Len(handled) < MaxEvents /\ handled' = Append(handled, event)

NextRooms ==
  \/ \E conn \in Conns :
       Connect(conn) /\ Handle(Event("connection", conn, NoChatId))
  \/ \E conn \in Conns, chatID \in ChatIds :
       JoinChat(conn, chatID) /\ Handle(Event("joinChat", conn, chatID))
  \/ \E conn \in Conns, chatID \in ChatIds \cup {NoChatId} :
       LeaveChat(conn, chatID) /\ Handle(Event("leaveChat", conn, chatID))

SpecRooms == Init /\ [][NextRooms]_vars

\* The read route over a store that holds the chats of up to MaxChats
\* createChat requests.
ValidBodies == {body \in CreateChatBodies : isCreateChatRequestValid(body)}

RECURSIVE StoreAfter(_, _, _)
StoreAfter(bodies, ms, cs) ==
  IF bodies = <<>> THEN [messages |-> ms, chats |-> cs]
  ELSE LET saved == saveChat(ms, cs, Head(bodies), {}, TRUE)
       IN StoreAfter(Tail(bodies), saved.messages, saved.chats)

InitChats ==
  /\ \E n \in 0..MaxChats : \E bodies \in [1..n -> ValidBodies] :
       /\ messages = StoreAfter(bodies, <<>>, <<>>).messages
       /\ chats = StoreAfter(bodies, <<>>, <<>>).chats
  /\ connected = {}
  /\ rooms = [ch \in ChatIds |-> {}]
  /\ req = [r \in Reqs |-> IdleReq]
  /\ emitted = [r \in Reqs |-> NoEmit]
  /\ handled = <<>>
  /\ auth = useAuth("login")
  /\ gamePage = useGamePage
  /\ gameServer = InitialSession
  /\ gameNet = InitialNet
  /\ nimPage = useNimGamePage(GameID, LocalUser)
  /\ usersPage = useUsersListPage
  /\ profile = useProfileSettings(ProfileUser)

NextChats ==
  \/ \E r \in Reqs, username \in UsernameParams : GetChatsByUserRoute(r, username)
  \/ \E r \in Reqs : GetChatsByUserPopulated(r)

SpecChats == InitChats /\ [][NextChats]_vars

\* The login page and the signup page.
InitAuth ==
  /\ InitServer
  /\ \E authType \in {"login", "signup"} : auth = useAuth(authType)
  /\ gamePage = useGamePage
  /\ gameServer = InitialSession
  /\ gameNet = InitialNet
  /\ nimPage = useNimGamePage(GameID, LocalUser)
  /\ usersPage = useUsersListPage
  /\ profile = useProfileSettings(ProfileUser)

NextAuth ==
  \/ togglePasswordVisibility
  \/ \E value \in Typed, field \in {"username", "password", "confirmPassword"} :
       handleInputChange(value, field)
  \/ handleSubmit
  \/ handleSubmitResumes

SpecAuth == InitAuth /\ [][NextAuth]_vars

\* The game page of the local user and the session it joins.
GameErrors ==
  [name : {"gameError"}, player : Players, error : {"Invalid move", "Not your turn"},
   gameState : {NoGame}]

InitGame ==
  /\ InitServer
  /\ auth = useAuth("login")
  /\ gamePage = useGamePage
  /\ gameServer \in {InitialSession, StartedSession}
  /\ gameNet = InitialNet
  /\ nimPage = useNimGamePage(GameID, LocalUser)
  /\ usersPage = useUsersListPage
  /\ profile = useProfileSettings(ProfileUser)

NextGame ==
  \/ handleJoinGameResumes
  \/ SocketGameUpdate
  \/ \E gameError \in GameErrors : SocketGameError(gameError)
  \/ handleLeaveGame
  \/ handleLeaveGameResumes
  \/ ServerJoin
  \/ ServerLeave
  \/ ServerMove
  \/ ServerSocket

SpecGame == InitGame /\ [][NextGame]_vars

\* The Nim page of a game, for each game and user it may be rendered with.
InitNim ==
  /\ InitServer
  /\ auth = useAuth("login")
  /\ gamePage = useGamePage
  /\ gameServer = InitialSession
  /\ gameNet = InitialNet
  /\ \E gameID \in {"g1", "g2"}, username \in Players :
       nimPage = useNimGamePage(gameID, username)
  /\ usersPage = useUsersListPage
  /\ profile = useProfileSettings(ProfileUser)

NextNim ==
  \/ \E value \in NimTyped : NimHandleInputChange(value)
  \/ NimHandleMakeMove

SpecNim == InitNim /\ [][NextNim]_vars

\* The users list page.
NextUsers ==
  \/ fetchDataResumes
  \/ \E userUpdate \in UserUpdates : handleModifiedUserUpdate(userUpdate)

SpecUsers == Init /\ [][NextUsers]_vars

\* The profile settings page, for a route with and without a username.
InitProfile ==
  /\ InitServer
  /\ auth = useAuth("login")
  /\ gamePage = useGamePage
  /\ gameServer = InitialSession
  /\ gameNet = InitialNet
  /\ nimPage = useNimGamePage(GameID, LocalUser)
  /\ usersPage = useUsersListPage
  /\ \E username \in {"", ProfileUser} : profile = useProfileSettings(username)

NextProfile ==
  \/ fetchUserDataResumes
  \/ \E value \in PasswordsTyped : setNewPassword(value)
  \/ \E value \in PasswordsTyped : setConfirmNewPassword(value)
  \/ handleResetPassword
  \/ handleResetPasswordResumes
  \/ handleDeleteUser
  \/ \E value \in BOOLEAN : setShowConfirmation(value)
  \/ setPendingAction(NoAction)
  \/ pendingActionRuns
  \/ pendingActionResumes

SpecProfile == InitProfile /\ [][NextProfile]_vars

\* ------------------------------------------------------------------ claims
Done(r, kind) == req[r].kind = kind /\ req[r].pc = "done"

\* the ids of the messages a populated chat carries
CarriedIds(result) == {result.chat.messages[i]._id : i \in DOMAIN result.chat.messages}

\* C1: in a successful addMessage request for chat c with message m, m is
\* persisted and becomes the last element of c's message sequence, the
\* earlier elements unchanged; the request then emits one chatUpdate of type
\* 'newMessage' that reaches the connections in room c and carries the chat
\* containing m.
C1_AppendPersistedAndDelivered ==
  [][\A r \in Reqs :
       /\ (req[r].pc = "addMessageToChat" /\ req'[r].pc = "populate") =>
            /\ req[r].newMessage \in 1..Len(messages')
            /\ chats'[req[r].chatId].messages =
                 Append(chats[req[r].chatId].messages, req[r].newMessage)
       /\ (req[r].kind = "addMessage" /\ req[r].pc = "populate" /\ req'[r].status = 200) =>
            /\ req[r].newMessage \in Range(chats'[req[r].chatId].messages)
            /\ emitted[r] = NoEmit
            /\ emitted'[r].type = "newMessage"
            /\ emitted'[r].to = rooms[req[r].chatId]
            /\ ~emitted'[r].payload.error
            /\ req[r].newMessage \in CarriedIds(emitted'[r].payload)]_vars

\* C2: an addMessage request that ends in an error leaves no message record
\* of its own in the store.
C2_FailedAppendLeavesNoMessage ==
  \A r \in Reqs :
    (Done(r, "addMessage") /\ req[r].status = 500) =>
      req[r].newMessage \notin 1..Len(messages)

\* the step in which request r runs the whole addParticipant route for a user
\* that exists and a chat that exists
AddsParticipant(r) ==
  /\ req[r].pc = "idle"
  /\ req'[r].kind = "addParticipant"
  /\ req'[r].participant \in Usernames
  /\ req'[r].chatId \in 1..Len(chats)

\* C3: adding a participant who is already in an existing chat is rejected
\* with an error, the chat's participant list is unchanged and no chatUpdate
\* is emitted.
C3_DuplicateParticipantRejected ==
  [][\A r \in Reqs :
       (/\ AddsParticipant(r)
        /\ UserIdOf[req'[r].participant] \in Range(chats[req'[r].chatId].participants))
       => /\ req'[r].status = 500
          /\ chats' = chats
          /\ emitted'[r] = NoEmit]_vars

\* the user's _id was pushed and neither it nor the username was there before
NewlyAdded(r) ==
  /\ Done(r, "addParticipant") /\ req[r].status = 200
  /\ LET ps == chats[req[r].chatId].participants
     IN /\ Len(ps) > 1
        /\ ps[Len(ps)] = UserIdOf[req[r].participant]
        /\ \A i \in 1..(Len(ps) - 1) :
             ps[i] \notin {req[r].participant, UserIdOf[req[r].participant]}

Emits(r, type) == emitted[r] = NoEmit /\ emitted'[r].type = type

\* C5 as claimed: the chatUpdate of type 'newParticipant' for chat c reaches
\* only the connections in room c.
C5_NewParticipantOnlyToRoom ==
  [][\A r \in Reqs :
       Emits(r, "newParticipant") => emitted'[r].to \subseteq rooms[req'[r].chatId]]_vars

\* C5 as amended: the chatUpdate of type 'newParticipant' reaches every
\* connected client, whether or not it is in the room of the chat.
C5_NewParticipantToEveryone ==
  [][\A r \in Reqs :
       Emits(r, "newParticipant") =>
         /\ emitted'[r].to = connected
         /\ emitted'[r].room = NoChatId]_vars

C5_Witness ==
  \E r \in Reqs :
    /\ emitted[r].type = "newParticipant"
    /\ emitted[r].to \cap rooms[req[r].chatId] # {}
    /\ emitted[r].to \ rooms[req[r].chatId] # {}

\* C6: a chatUpdate of type 'created' reaches every connected client; a
\* chatUpdate of type 'newMessage' for chat c reaches the connections that are
\* in room c when it is emitted and no other.
C6_BroadcastScope ==
  [][\A r \in Reqs :
       /\ Emits(r, "created") => emitted'[r].to = connected
       /\ Emits(r, "newMessage") =>
            /\ emitted'[r].room = req[r].chatId
            /\ emitted'[r].to = rooms[req[r].chatId]]_vars

C6_Witness ==
  \E r1 \in Reqs, r2 \in Reqs :
    /\ emitted[r1].type = "created" /\ emitted[r1].to = Conns
    /\ emitted[r2].type = "newMessage"
    /\ emitted[r2].to # {} /\ emitted[r2].to # connected
    /\ connected = Conns

\* every store write of request r is in the store
WritesDone(r) ==
  IF req[r].kind = "createChat" THEN req[r].chat \in 1..Len(chats)
  ELSE IF req[r].kind = "addMessage"
  THEN /\ req[r].newMessage \in 1..Len(messages)
       /\ req[r].chatId \in 1..Len(chats)
       /\ req[r].newMessage \in Range(chats[req[r].chatId].messages)
  ELSE /\ req[r].kind = "addParticipant"
       /\ req[r].chatId \in 1..Len(chats)
       /\ UserIdOf[req[r].participant] \in Range(chats[req[r].chatId].participants)

RoutePrefix(kind) ==
  IF kind = "createChat" THEN "Error occurred while creating a chat"
  ELSE IF kind = "addMessage" THEN "Error occurred while adding a message to the chat"
  ELSE "Error occurred while adding participant to chat"

ServiceErrors ==
  { "Error occurred while saving chat", "Error occurred while creating message",
    "Error occurred while adding the message to chat",
    "Error occurred while adding participant to chat" }

\* C7: a request has emitted a chatUpdate only if every store write of it
\* succeeded, and it then answers 200; a request a chat-service call failed
\* answers 500 with the prefix of its route and has emitted nothing.
C7_EmitAfterWrites ==
  \A r \in Reqs :
    /\ emitted[r] # NoEmit => (WritesDone(r) /\ req[r].pc = "done" /\ req[r].status = 200)
    /\ (req[r].pc = "done" /\ req[r].status = 200) => WritesDone(r)
    /\ (req[r].pc = "done" /\ req[r].status \notin {200, 400}) =>
         /\ req[r].status = 500
         /\ req[r].text[1] = RoutePrefix(req[r].kind)
         /\ req[r].text[2] \in ServiceErrors
         /\ emitted[r] = NoEmit

C7_Witness ==
  \E r1 \in Reqs, r2 \in Reqs :
    /\ Done(r1, "addMessage") /\ req[r1].status = 500 /\ req[r1].newMessage # 0
    /\ emitted[r2] # NoEmit

\* C8: in createChat and addMessage a 200 response body and a chatUpdate
\* payload are a populated chat, never an object with an 'error' field.
C8_PopulateErrorChecked ==
  \A r \in Reqs :
    req[r].kind \in {"createChat", "addMessage"} =>
      /\ (req[r].pc = "done" /\ req[r].status = 200) => ~req[r].json.error
      /\ emitted[r] # NoEmit => ~emitted[r].payload.error

AppendedFrom(r) == Done(r, "addMessage") /\ req[r].status = 200

\* C9 as claimed: after a successful addMessage request from sender s to chat
\* c, s is a participant of c.
C9_SenderIsParticipant ==
  \A r \in Reqs :
    AppendedFrom(r) =>
      \/ req[r].msgFrom \in Range(chats[req[r].chatId].participants)
      \/ UserIdOf[req[r].msgFrom] \in Range(chats[req[r].chatId].participants)

\* C9 as amended: after a successful addMessage request from sender s to chat
\* c, s is the username of an existing user and the message appended to c is
\* from s; s need not be a participant of c.
C9_SenderIsUser ==
  \A r \in Reqs :
    AppendedFrom(r) =>
      /\ req[r].msgFrom \in Usernames
      /\ messages[req[r].newMessage].msgFrom = req[r].msgFrom
      /\ req[r].newMessage \in Range(chats[req[r].chatId].messages)

C9_Witness ==
  \E r \in Reqs :
    /\ AppendedFrom(r)
    /\ req[r].msgFrom \notin Range(chats[req[r].chatId].participants)
    /\ UserIdOf[req[r].msgFrom] \notin Range(chats[req[r].chatId].participants)

\* the event handled by this step
Handled(name) == Len(handled') > Len(handled) /\ handled'[Len(handled')].name = name
LastEvent == handled'[Len(handled')]
AfterEvent(event) == Len(handled) > 0 /\ handled[Len(handled)] = event

\* C10: a connection that joins chat c and then leaves it is not in the room
\* of c; joining c a second time changes nothing; leaving a chat the
\* connection is not in changes nothing; joining or leaving c changes the
\* room of no other chat.
C10_RoomMembership ==
  [][/\ (Handled("leaveChat") /\ AfterEvent(Event("joinChat", LastEvent.conn, LastEvent.chatID)))
          => LastEvent.conn \notin rooms'[LastEvent.chatID]
     /\ (Handled("joinChat") /\ AfterEvent(LastEvent)) => rooms' = rooms
     /\ (Handled("leaveChat")
           /\ (IF LastEvent.chatID = NoChatId THEN TRUE
               ELSE LastEvent.conn \notin rooms[LastEvent.chatID]))
          => rooms' = rooms
     /\ (Handled("joinChat") \/ Handled("leaveChat"))
          => \A ch \in ChatIds \ {LastEvent.chatID} : rooms'[ch] = rooms[ch]]_vars

C10_Witness ==
  \E i \in 1..Len(handled), conn \in Conns, ch \in ChatIds, other \in Conns :
    /\ i + 1 = Len(handled)
    /\ handled[i] = Event("joinChat", conn, ch)
    /\ handled[i + 1] = Event("leaveChat", conn, ch)
    /\ conn \notin rooms[ch]
    /\ other \in rooms[ch]

\* the step in which request r arrives as a request of this kind
Arrives(r, kind) == req[r].pc = "idle" /\ req'[r].kind = kind

\* the request was answered before any chat-service call: nothing was
\* persisted, nothing emitted, and the request holds no service result
AnsweredUnserved(r, text) ==
  /\ req'[r].pc = "done"
  /\ req'[r].status = 400
  /\ req'[r].text = <<text, "">>
  /\ req'[r].newMessage = 0
  /\ req'[r].chat = NoChatId
  /\ messages' = messages
  /\ chats' = chats
  /\ emitted' = emitted

\* C11: a createChat request whose participants field is not an array or is
\* an empty array, or whose messages field is missing, is answered with 400
\* and 'Invalid request for creating chat'; saveChat is not called, nothing
\* is persisted and no chatUpdate is emitted.
C11_InvalidCreateChatRejected ==
  [][\A r \in Reqs :
       (/\ Arrives(r, "createChat")
        /\ \/ ~req'[r].body.isArray
           \/ Len(req'[r].body.participants) = 0
           \/ ~req'[r].body.hasMessages)
       => AnsweredUnserved(r, "Invalid request for creating chat")]_vars

C11_Witness ==
  \E r \in Reqs :
    /\ Done(r, "createChat") /\ req[r].status = 400
    /\ req[r].body.isArray /\ req[r].body.hasMessages
    /\ Len(req[r].body.participants) = 0
    /\ Len(chats) > 0
    /\ emitted[r] = NoEmit

\* C12: an addMessage request with msg or msgFrom missing or empty, and an
\* addParticipant request with participant missing or empty, is answered
\* with 400 and 'Invalid request body'; no chat-service function is called,
\* nothing is persisted and no chatUpdate is emitted.
C12_InvalidBodyRejected ==
  [][\A r \in Reqs :
       /\ (Arrives(r, "addMessage") /\ (req'[r].msg = "" \/ req'[r].msgFrom = ""))
            => AnsweredUnserved(r, "Invalid request body")
       /\ (Arrives(r, "addParticipant") /\ req'[r].participant = "")
            => AnsweredUnserved(r, "Invalid request body")]_vars

C12_Witness ==
  \E r1 \in Reqs, r2 \in Reqs :
    /\ Done(r1, "addMessage") /\ req[r1].status = 400 /\ req[r1].msgFrom = ""
    /\ Done(r2, "addParticipant") /\ req[r2].status = 400 /\ req[r2].participant = ""
    /\ emitted[r1] = NoEmit /\ emitted[r2] = NoEmit

\* what find is asked for: arrays of usernames
ParticipantQueries == { <<"u2">>, <<"id1">>, <<"u2", "u3">>, <<"u2", "id1">>, <<"u1">> }

\* the ids of the chats whose participant list holds every username of p
ChatsOf(p) == {id \in 1..Len(chats) : Range(p) \subseteq Range(chats[id].participants)}

\* C13: getChatsByParticipants(p) returns the chats that contain all usernames
\* in p, each once, and an empty list on a store error; a getChatsByUser
\* request answered 200 carries the populated form of every chat it found,
\* in the order found, and they are the chats whose participant list holds
\* the username (none on a store error); if populating one of them gave an
\* error marker the answer is 500 and carries no list.
C13_ChatsOfUser ==
  /\ \A p \in ParticipantQueries :
       LET found == getChatsByParticipants(chats, p, TRUE)
       IN /\ Range(found) = ChatsOf(p)
          /\ Len(found) = Cardinality(ChatsOf(p))
          /\ getChatsByParticipants(chats, p, FALSE) = <<>>
  /\ \A r \in Reqs :
       Done(r, "getChatsByUser") =>
         \/ /\ req[r].status = 200
            /\ Range(req[r].chats) \in {ChatsOf(<<req[r].username>>), {}}
            /\ DOMAIN req[r].populatedChats = DOMAIN req[r].chats
            /\ \A k \in DOMAIN req[r].chats :
                 /\ ~req[r].populatedChats[k].error
                 /\ req[r].populatedChats[k] =
                      populateDocument(messages, chats, req[r].chats[k], TRUE)
         \/ /\ req[r].status = 500
            /\ req[r].text = <<"Error occurred while retrieving chats",
                               "Failed to populate all fetched chats">>
            /\ req[r].populatedChats = <<>>
            /\ req[r].chats # <<>>

C13_Witness ==
  \E r1 \in Reqs, r2 \in Reqs :
    /\ Done(r1, "getChatsByUser") /\ req[r1].status = 200
    /\ Len(req[r1].populatedChats) = 2
    /\ Len(req[r1].populatedChats[2].chat.messages) = 2
    /\ Done(r2, "getChatsByUser") /\ req[r2].status = 500
    /\ Len(req[r2].chats) = 2

\* the step is a run of handleSubmit to its await
Submits == auth'.handler = "handleSubmit"

\* C16: in signup mode with password different from passwordConfirmation,
\* validateInputs returns false and handleSubmit makes no createUser call,
\* does not set the user context and does not navigate.
C16_MismatchBlocksSignup ==
  [][(Submits /\ auth.authType = "signup"
        /\ auth.password # auth.passwordConfirmation)
     => /\ ~validateInputs(auth).valid
        /\ "createUser" \notin Range(auth'.effects)
        /\ auth'.awaiting = NoCall
        /\ auth'.user = auth.user
        /\ auth'.location = auth.location]_vars

\* C20: when username or password is empty at submit time, handleSubmit sets
\* the error message and returns: no loginUser or createUser call, the user
\* context is not set and there is no navigation.
C20_EmptyCredentialsBlocked ==
  [][(Submits /\ (auth.username = <<>> \/ auth.password = <<>>))
     => /\ auth'.err = "Please enter a valid username and passsword"
        /\ auth'.effects = <<"setErr">>
        /\ auth'.awaiting = NoCall
        /\ auth'.user = auth.user
        /\ auth'.location = auth.location]_vars

C20_Witness ==
  /\ auth.handler = "handleSubmit"
  /\ auth.username # <<>> /\ auth.password = <<>>
  /\ auth.err = "Please enter a valid username and passsword"
  /\ auth.awaiting = NoCall /\ auth.user = NoUser /\ auth.location = "/"

\* the step is the continuation of handleSubmit after its awaited API call
SubmitSettles == auth.awaiting # NoCall /\ auth'.awaiting = NoCall

\* C21: the user context is set and the page navigates to /home only in the
\* continuation of a handleSubmit whose loginUser / createUser call succeeded,
\* setUser first and navigate second; when the call fails err becomes the
\* failure's message and neither setUser nor navigate is called.
C21_UserAndHomeOnlyAfterSuccess ==
  /\ [](auth.user # NoUser <=> auth.location = "/home")
  /\ [][/\ (auth'.user # auth.user \/ auth'.location # auth.location)
            => (SubmitSettles /\ auth'.answer.ok)
        /\ (SubmitSettles /\ auth'.answer.ok)
            => /\ auth'.effects = <<"setUser", "navigate">>
               /\ auth'.user = [username |-> auth.awaiting.username]
               /\ auth'.location = "/home"
               /\ auth'.err = auth.err
        /\ (SubmitSettles /\ ~auth'.answer.ok)
            => /\ auth'.err = auth'.answer.message
               /\ auth'.answer.message \in FailureMessages
               /\ auth'.effects = <<"setErr">>
               /\ auth'.user = auth.user
               /\ auth'.location = auth.location
        /\ (~SubmitSettles)
            => /\ "setUser" \notin Range(auth'.effects)
               /\ "navigate" \notin Range(auth'.effects)]_vars

C21_Witness ==
  /\ auth.handler = "handleSubmit (resumed)"
  /\ ~auth.answer.ok /\ auth.answer.message = "Invalid username or password"
  /\ auth.err = "Invalid username or password"
  /\ auth.effects = <<"setErr">>
  /\ auth.user = NoUser /\ auth.location = "/"

\* the step is the call of saveChat by a createChat request r
SavesChat(r) ==
  /\ Arrives(r, "createChat")
  /\ req'[r].body.isArray /\ Len(req'[r].body.participants) > 0
  /\ req'[r].body.hasMessages

\* the messages created by the step, in the order of their creation
CreatedBy == SubSeq(messages', Len(messages) + 1, Len(messages'))

\* C24: saveChat creates the chat document only if every message of the
\* payload was created; the chat's messages are the ids of the created
\* messages in payload order and its participants are the payload's; if a
\* message creation fails the result is an error marker and no chat is created.
C24_ChatOnlyFromAllMessages ==
  [][\A r \in Reqs : SavesChat(r) =>
       LET payload == req'[r].body
           created == chats'[Len(chats')]
       IN /\ SubSeq(messages', 1, Len(messages)) = messages
          /\ chats' # chats =>
                /\ CreatedBy = payload.messages
                /\ chats' = Append(chats, created)
                /\ created.participants = payload.participants
                /\ Len(created.messages) = Len(payload.messages)
                /\ \A i \in DOMAIN payload.messages :
                      /\ created.messages[i] = Len(messages) + i
                      /\ messages'[created.messages[i]] = payload.messages[i]
                /\ req'[r].pc = "populate" /\ req'[r].chat = Len(chats')
          /\ CreatedBy # payload.messages =>
                /\ chats' = chats
                /\ req'[r].pc = "done" /\ req'[r].status = 500
                /\ req'[r].text = <<"Error occurred while creating a chat",
                                    "Error occurred while saving chat">>
                /\ req'[r].chat = NoChatId
          /\ chats' = chats => (req'[r].pc = "done" /\ req'[r].status = 500)]_vars

C24_Witness ==
  /\ Done(1, "createChat") /\ req[1].status = 500
  /\ messages = <<PayloadB, PayloadA, PayloadB>>
  /\ Len(chats) = 1
  /\ chats[1].participants = <<"u2", "u3">>
  /\ chats[1].messages = <<2, 3>>
  /\ req[2].kind = "createChat" /\ req[2].chat = 1

\* C14: a gameError whose player is not the local user leaves the page's
\* error and gameState unchanged; the error is shown only when the player
\* of the gameError is the local user.
C14_OthersErrorsIgnored ==
  [][gamePage'.handler = "handleGameError" =>
       /\ gamePage'.gameState = gamePage.gameState
       /\ gamePage'.joinedGameID = gamePage.joinedGameID
       /\ gamePage'.received.player # LocalUser => gamePage'.error = gamePage.error
       /\ gamePage'.received.player = LocalUser =>
            gamePage'.error = gamePage'.received.error]_vars

C14_Witness ==
  /\ gamePage.handler = "handleGameError"
  /\ gamePage.received.player = "u2"
  /\ gamePage.received.error = "Not your turn"
  /\ gamePage.error = NoError
  /\ gamePage.gameState.status = "IN_PROGRESS"

\* the join sequence of the page is complete and nothing is in flight
JoinSettled ==
  /\ Mounted
  /\ gamePage.joinedGameID = GameID
  /\ gamePage.awaiting = "none"
  /\ LocalConn \in gameServer.subscribers
  /\ gameNet.request = "none" /\ gameNet.response = NoResponse
  /\ gameNet.toServer = <<>> /\ gameNet.toClient = <<>>

\* C15: whatever the interleaving of the page's join sequence (join call,
\* storing the returned state, 'joinGame' subscription) with the accepted
\* moves that are broadcast to the subscribers, once the sequence is complete
\* and every broadcast has arrived the page's gameState is the server's
\* session state.
C15_NoLostUpdateOnJoin == JoinSettled => gamePage.gameState = gameServer.session

\* the step calls resetPassword; the step is the continuation after the call
ResetCalled == profile.awaitingReset = NoReset /\ profile'.awaitingReset # NoReset
ResetSettles == profile.awaitingReset # NoReset /\ profile'.awaitingReset = NoReset

\* C22: resetPassword is called only when newPassword and confirmNewPassword
\* are both non-blank and equal; after a successful reset both fields are
\* empty, errorMessage is null and successMessage is set; after a failed reset
\* errorMessage is set, successMessage is null and the fields keep their values.
C22_ResetOnlyWithMatchingPasswords ==
  [][/\ ResetCalled =>
          /\ trim(profile.newPassword) # <<>>
          /\ trim(profile.confirmNewPassword) # <<>>
          /\ profile.newPassword = profile.confirmNewPassword
          /\ profile'.handler = "handleResetPassword"
          /\ profile'.awaitingReset.newPassword = profile.newPassword
     /\ "resetPassword" \in Range(profile'.effects) => ResetCalled
     /\ ResetSettles => profile'.answer \in {"resolved", "rejected"}
     /\ (ResetSettles /\ profile'.answer = "resolved") =>
          /\ profile'.newPassword = <<>>
          /\ profile'.confirmNewPassword = <<>>
          /\ profile'.errorMessage = NoMessage
          /\ profile'.successMessage = "The password has been reset successfully!"
     /\ (ResetSettles /\ profile'.answer = "rejected") =>
          /\ profile'.errorMessage = "Password reset failed."
          /\ profile'.successMessage = NoMessage
          /\ profile'.newPassword = profile.newPassword
          /\ profile'.confirmNewPassword = profile.confirmNewPassword]_vars

C22_Witness ==
  /\ profile.handler = "handleResetPassword (resumed)"
  /\ profile.answer = "rejected"
  /\ profile.newPassword = <<"a", " ">>
  /\ profile.confirmNewPassword = <<"a", " ">>
  /\ profile.errorMessage = "Password reset failed."
  /\ profile.successMessage = NoMessage

\* the step calls deleteUser; the step is the continuation after the call
DeleteCalled == profile.awaitingDelete = "" /\ profile'.awaitingDelete # ""
DeleteSettles == profile.awaitingDelete # "" /\ profile'.awaitingDelete = ""

\* C23: handleDeleteUser never calls deleteUser itself, it only opens the
\* confirmation and stores a pending action; deleteUser is called only when
\* that pending action is run, the page navigates to '/' only after deleteUser
\* succeeded, and showConfirmation is false after the pending action
\* completes, whether it succeeded or failed.
C23_DeleteOnlyThroughPendingAction ==
  [][/\ profile'.handler = "handleDeleteUser" =>
          /\ ~DeleteCalled
          /\ "deleteUser" \notin Range(profile'.effects)
          /\ profile'.location = profile.location
          /\ profile.username # "" =>
                /\ profile'.showConfirmation
                /\ profile'.pendingAction = "deleteUser"
                /\ profile'.effects = <<"setShowConfirmation", "setPendingAction">>
     /\ DeleteCalled =>
          /\ profile'.handler = "pendingAction"
          /\ profile.pendingAction = "deleteUser"
          /\ profile'.awaitingDelete = profile.username
          /\ profile'.location = profile.location
     /\ "deleteUser" \in Range(profile'.effects) => DeleteCalled
     /\ profile'.location # profile.location =>
          /\ DeleteSettles /\ profile'.answer = "resolved"
          /\ profile'.location = "/"
     /\ DeleteSettles =>
          /\ profile'.answer \in {"resolved", "rejected"}
          /\ ~profile'.showConfirmation
          /\ profile'.answer = "resolved" <=> profile'.location = "/"]_vars

C23_Witness ==
  /\ profile.handler = "pendingAction (resumed)"
  /\ profile.answer = "rejected"
  /\ ~profile.showConfirmation
  /\ profile.pendingAction = "deleteUser"
  /\ profile.errorMessage = "Failed to delete user."
  /\ profile.successMessage = NoMessage
  /\ profile.location = "/user"

\* no two entries of the list have the same username
DistinctUsernames(list) ==
  \A i, j \in DOMAIN list : list[i].username = list[j].username => i = j

\* C26: if the list fetched by getUsers has no two users with the same
\* username, then after any sequence of 'created' and 'deleted' userUpdate
\* events, before or after the fetch, the user list has no two entries with
\* the same username.
C26_NoDuplicateUsernames ==
  DistinctUsernames(usersPage.fetched) => DistinctUsernames(usersPage.userList)

C26_Witness ==
  /\ usersPage.awaiting = "none"
  /\ usersPage.handler = "handleModifiedUserUpdate"
  /\ usersPage.received.type = "created"
  /\ Len(usersPage.fetched) = 2 /\ DistinctUsernames(usersPage.fetched)
  /\ Len(usersPage.userList) = 2
  /\ usersPage.userList[1] = usersPage.received.user
  /\ usersPage.userList[1].username = usersPage.fetched[2].username
  /\ usersPage.userList[2] = usersPage.fetched[1]

\* the step is the continuation of handleJoinGame after its awaited call
JoinAnswered == gamePage.awaiting = "joinGame" /\ gamePage'.awaiting = "none"
\* the step sends a 'joinGame' socket event
EmitsJoinGame ==
  /\ Len(gameNet'.toServer) = Len(gameNet.toServer) + 1
  /\ gameNet'.toServer[Len(gameNet'.toServer)].name = "joinGame"
\* the step is a run of handleGameUpdate
GameUpdateHandled ==
  /\ gameNet.toClient # <<>> /\ gameNet'.toClient = Tail(gameNet.toClient)
  /\ gamePage'.handler = "handleGameUpdate"

\* C25: 'joinGame' is emitted only after the join call succeeded and with the
\* gameID of the returned game; when the join call fails error is set,
\* gameState stays null, joinedGameID stays empty and nothing is emitted; a
\* gameUpdate received while gameState is null leaves it null.
C25_JoinEmitOnlyAfterSuccess ==
  /\ [](gamePage.joinedGameID = "" /\ Mounted => gamePage.gameState = NoGame)
  /\ [][/\ EmitsJoinGame =>
             /\ JoinAnswered /\ gameNet.response.ok
             /\ gameNet'.toServer[Len(gameNet'.toServer)].gameID
                  = gameNet.response.game.gameID
             /\ gamePage'.gameState = gameNet.response.game
             /\ gamePage'.joinedGameID = gameNet.response.game.gameID
        /\ (JoinAnswered /\ gameNet.response.ok) => EmitsJoinGame
        /\ (JoinAnswered /\ ~gameNet.response.ok) =>
             /\ gamePage'.error # NoError
             /\ gamePage'.effects = <<"setError">>
             /\ gamePage'.gameState = NoGame
             /\ gamePage'.joinedGameID = ""
             /\ gameNet'.toServer = gameNet.toServer
        /\ (GameUpdateHandled /\ gamePage.gameState = NoGame) =>
             /\ gamePage'.gameState = NoGame
             /\ gamePage'.joinedGameID = gamePage.joinedGameID
             /\ gamePage'.error = gamePage.error
             /\ gameNet'.toServer = gameNet.toServer]_vars

C25_Witness ==
  /\ Mounted
  /\ gamePage.handler = "handleGameUpdate"
  /\ gamePage.received.gameState.moves = 1
  /\ gamePage.awaiting = "none"
  /\ gamePage.error = "Error: Request failed.message"
  /\ gamePage.gameState = NoGame /\ gamePage.joinedGameID = ""
  /\ gameNet.toServer = <<>>

\* the step is a run of handleLeaveGame to its await or, with no call, its end
Leaves == gamePage.handler # "handleLeaveGame" /\ gamePage'.handler = "handleLeaveGame"
LeaveAnswered ==
  gamePage.handler # "handleLeaveGame (resumed)"
    /\ gamePage'.handler = "handleLeaveGame (resumed)"
JoinedNotOver == gamePage.joinedGameID # "" /\ gamePage.gameState.status # "OVER"

\* C19: handleLeaveGame sends the leave request if and only if a game is
\* joined and its status is not OVER, and gameState and joinedGameID are
\* cleared by that branch alone, when the request is answered; with the local
\* status OVER no leave request is sent and the page still emits 'leaveGame'
\* and navigates to the games list.
C19_LeaveRequestUnlessOver ==
  [][/\ Leaves => (gameNet'.request = "leaveGame" <=> JoinedNotOver)
     /\ (gameNet.request # "leaveGame" /\ gameNet'.request = "leaveGame") =>
          (Leaves /\ JoinedNotOver)
     /\ (Leaves /\ ~JoinedNotOver) =>
          /\ gamePage'.location = "/games"
          /\ gamePage'.effects = <<"emit leaveGame", "navigate">>
          /\ gamePage'.gameState = gamePage.gameState
          /\ gamePage'.joinedGameID = gamePage.joinedGameID
          /\ gameNet'.request = "none"
     /\ (LeaveAnswered /\ gameNet.response.ok) =>
          /\ gamePage'.gameState = NoGame
          /\ gamePage'.joinedGameID = ""
          /\ gamePage'.location = "/games"
     /\ (gamePage.joinedGameID # "" /\ gamePage'.joinedGameID = "") =>
          (LeaveAnswered /\ gamePage'.gameState = NoGame)]_vars

C19_Witness ==
  /\ gamePage.handler = "handleLeaveGame"
  /\ gamePage.gameState.status = "OVER"
  /\ gamePage.joinedGameID = GameID
  /\ gamePage.location = "/games"
  /\ gameNet.request = "none"
  /\ LocalUser \in gameServer.players

\* C17: the move of the Nim page is null or an integer from 1 to 3; a
\* 'makeMove' event is emitted only when move is not null, and every event
\* emitted carries numObjects equal to that move, the username of the local
\* user as playerID and the gameID of the game displayed.
C17_MoveInRange ==
  /\ [](/\ nimPage.move.null \/ (~nimPage.move.num.nan /\ nimPage.move.num.v \in 1..3)
        /\ \A i \in DOMAIN nimPage.emitted :
             LET e == nimPage.emitted[i]
             IN /\ ~e.move.move.numObjects.nan
                /\ e.move.move.numObjects.v \in 1..3
                /\ e.move.playerID = nimPage.username
                /\ e.move.gameID = nimPage.gameID
                /\ e.gameID = nimPage.gameID)
  /\ [][/\ nimPage.move.null => nimPage'.emitted = nimPage.emitted
        /\ nimPage'.emitted # nimPage.emitted =>
             /\ ~nimPage.move.null
             /\ nimPage'.move = nimPage.move
             /\ nimPage'.emitted =
                  Append(nimPage.emitted,
                         [gameID |-> nimPage.gameID,
                          move |-> [playerID |-> nimPage.username,
                                    gameID |-> nimPage.gameID,
                                    move |-> [numObjects |-> nimPage.move.num]]])]_vars

C17_Witness ==
  /\ Len(nimPage.emitted) = 2
  /\ nimPage.emitted[1].move.move.numObjects = Num(3)
  /\ nimPage.emitted[2].move.move.numObjects = Num(1)
  /\ nimPage.move = Move(Num(2))

\* the number of entries among the first i of list whose username is not name
Kept(list, name, i) == Cardinality({j \in 1..i : list[j].username # name})

\* the step handles a userUpdate of this type
Updates(type) ==
  /\ usersPage'.handler = "handleModifiedUserUpdate"
  /\ usersPage'.received.type = type

\* C18: a userUpdate of type 'created' for user u puts u at the front of the
\* list when no entry has u's username, and otherwise replaces the existing
\* entry in place, the length and the other entries unchanged; a userUpdate
\* of type 'deleted' removes every entry with u's username and leaves the
\* other entries in their order.
C18_UserListUpdates ==
  /\ [](\A u \in Users :
          LET list == usersPage.userList
              added == addUserToList(list, u)
              removed == removeUserFromList(list, u)
          IN /\ (\A i \in DOMAIN list : list[i].username # u.username) =>
                  (Len(added) = Len(list) + 1 /\ added[1] = u
                     /\ \A i \in DOMAIN list : added[i + 1] = list[i])
             /\ (\E i \in DOMAIN list : list[i].username = u.username) =>
                  (Len(added) = Len(list)
                     /\ \A i \in DOMAIN list :
                          added[i] = IF list[i].username = u.username THEN u ELSE list[i])
             /\ Len(removed) = Kept(list, u.username, Len(list))
             /\ \A i \in DOMAIN list :
                  list[i].username # u.username =>
                    removed[Kept(list, u.username, i)] = list[i])
  /\ [][/\ Updates("created") =>
             usersPage'.userList = addUserToList(usersPage.userList, usersPage'.received.user)
        /\ Updates("deleted") =>
             usersPage'.userList =
               removeUserFromList(usersPage.userList, usersPage'.received.user)]_vars

C18_Witness ==
  /\ usersPage.handler = "handleModifiedUserUpdate"
  /\ usersPage.received.type = "created"
  /\ Len(usersPage.userList) = 2
  /\ usersPage.userList[1].username # usersPage.received.user.username
  /\ usersPage.userList[2] = usersPage.received.user
  /\ usersPage.fetched # usersPage.userList
  /\ Len(usersPage.fetched) = 2

====
